---- MODULE Spec2Model ----
(***************************************************************************)
(* A model of terraform_cloud_workspace_manager.py: one run of the script, *)
(* from the module-level configuration load to the end of main().          *)
(*                                                                         *)
(* Text is modelled structurally:                                          *)
(*   - a path or a URL path is the sequence of its "/"-separated segments  *)
(*     (for a URL: exactly the list str.split('/') returns, so "/api/v2"   *)
(*     is <<"", "api", "v2">> and "/api/v2/" is <<"", "api", "v2", "">>);  *)
(*   - the content of terraform.tf is a sequence of lexical items, each    *)
(*     rendered as one piece of text: `workspaces {`, `}`, `name = "v"`,   *)
(*     `organization = "v"`, `prefix = "v"`, separated by white space;     *)
(*   - an optional value (Python None or a string) is <<>> or <<v>>.       *)
(***************************************************************************)
EXTENDS Integers, Sequences, FiniteSets, TLC

VARIABLES
    pc,                 \* position of the run
    config,             \* API_BASE_URL as written in config.json
    API_BASE_URL,       \* the module global, set by the import-time load
    argv,               \* the command line
    args,               \* the argparse namespace main() works on
    file,               \* terraform.tf in the current directory
    cwd,                \* os.getcwd(), as path segments below "/"
    gitdirs,            \* the directories that hold a .git entry
    workspace_name,     \* main()'s local, None until the Locator ran
    organization_name,  \* main()'s local
    settings,           \* main()'s local: the dict build_settings returned
    patcher,            \* the calls of update_workspace_settings, in order
    requests,           \* the calls of requests.patch, in order
    http_response,      \* what requests.patch returned, None until it did
    out,                \* the lines printed, in order
    events              \* the file-system and network accesses, in order

vars == <<pc, config, API_BASE_URL, argv, args, file, cwd, gitdirs,
          workspace_name, organization_name, settings, patcher, requests,
          http_response, out, events>>

(***************************************************************************)
(* Bounds of the model.                                                    *)
(***************************************************************************)
MaxDepth == 3

(***************************************************************************)
(* Python values.                                                          *)
(***************************************************************************)
None == <<>>

Some(v) == <<v>>

\* Mutant of Truthy: an "is not None" test, which lets "" through
TruthyNotNone(x) == x # None

\* bool(x) of an optional string: None and "" are falsy
Truthy(x) == x # None /\ x[1] # ""

Min(S) == CHOOSE x \in S : \A y \in S : x <= y

Max(S) == CHOOSE x \in S : \A y \in S : x >= y

\* filter(None, s): the non-empty strings of s, in order
RECURSIVE FilterNonEmpty(_)
FilterNonEmpty(s) ==
    IF s = <<>> THEN <<>>
    ELSE IF Head(s) = "" THEN FilterNonEmpty(Tail(s))
         ELSE <<Head(s)>> \o FilterNonEmpty(Tail(s))

(***************************************************************************)
(* URLs.  A URL is the tuple urlparse makes of it, without query and       *)
(* fragment: [scheme, netloc, parts, params].  parts is path.split('/');   *)
(* params is None when the last path segment holds no ";", else what       *)
(* follows its first ";" (the segment in parts is then what precedes it).  *)
(* Schemes are "", "http" and "https", which urllib lists in               *)
(* uses_relative, uses_netloc and uses_params.  The string a URL stands    *)
(* for is urlunparse of the tuple.                                         *)
(***************************************************************************)
Url(scheme, netloc, parts, params) ==
    [scheme |-> scheme, netloc |-> netloc, parts |-> parts,
     params |-> params]

\* the empty string
EmptyUrl == Url("", "", <<"">>, None)

Host == "app.terraform.io"

Last(s) == s[Len(s)]

Front(s) == SubSeq(s, 1, Len(s) - 1)

\* the loop of urljoin that removes dot segments
RECURSIVE ResolveDots(_, _)
ResolveDots(segments, resolved_path) ==
    IF segments = <<>> THEN resolved_path
    ELSE LET seg == Head(segments) IN
         IF seg = ".."
         THEN ResolveDots(Tail(segments),
                          IF resolved_path = <<>> THEN <<>>
                          ELSE Front(resolved_path))
         ELSE IF seg = "."
         THEN ResolveDots(Tail(segments), resolved_path)
         ELSE ResolveDots(Tail(segments), Append(resolved_path, seg))

\* urllib.parse.urlunparse, read back as a tuple: empty params leave no
\* ";", and a path that follows a scheme or an authority gets its leading
\* "/"
urlunparse(scheme, netloc, parts, params) ==
    LET kept     == IF params = Some("") THEN None ELSE params
        empty    == parts = <<"">> /\ kept = None
        absolute == Len(parts) >= 2 /\ Head(parts) = ""
    IN Url(scheme, netloc,
           IF (netloc # "" \/ scheme # "") /\ ~empty /\ ~absolute
           THEN <<"">> \o parts ELSE parts,
           kept)

\* urllib.parse.urljoin(base, url)
urljoin(base, url) ==
    IF base = EmptyUrl THEN url
    ELSE IF url = EmptyUrl THEN base
    ELSE
    LET scheme == IF url.scheme # "" THEN url.scheme ELSE base.scheme
        bparts == base.parts
        base_parts == IF Last(bparts) # "" THEN Front(bparts) ELSE bparts
        joined == base_parts \o url.parts
        segments ==
            IF Len(url.parts) >= 2 /\ Head(url.parts) = ""
            THEN url.parts
            ELSE IF Len(joined) < 2 THEN joined
            ELSE <<Head(joined)>>
                 \o FilterNonEmpty(SubSeq(joined, 2, Len(joined) - 1))
                 \o <<Last(joined)>>
        resolved == ResolveDots(segments, <<>>)
        resolved_path == IF Last(segments) \in {".", ".."}
                         THEN Append(resolved, "") ELSE resolved
        path == IF resolved_path \in {<<>>, <<"">>} THEN <<"", "">>
                ELSE resolved_path
    IN IF scheme # base.scheme THEN url
       ELSE IF url.netloc # ""
       THEN urlunparse(scheme, url.netloc, url.parts, url.params)
       ELSE IF url.parts = <<"">> /\ url.params \in {None, Some("")}
       THEN urlunparse(scheme, base.netloc, base.parts, base.params)
       ELSE urlunparse(scheme, base.netloc, path, url.params)

\* urllib.parse._splitparams on one path segment.  Strings are atomic
\* values here, so the segments with a ";" are listed; every other name of
\* the model holds none.
_splitparams(segment) ==
    CASE segment = "..;x" -> <<"..", Some("x")>>
      [] segment = ".;x"  -> <<".", Some("x")>>
      [] segment = ";x"   -> <<"", Some("x")>>
      [] segment = "w;x"  -> <<"w", Some("x")>>
      [] segment = "w;"   -> <<"w", Some("")>>
      [] OTHER            -> <<segment, None>>

\* the f-string of patch_workspace as urlparse reads it; the names hold no
\* "/", "?" or "#" and no tab, carriage return or newline, so that the text
\* splits into these four segments and only the last one can carry params
WorkspacePath(organization, workspace) ==
    Url("", "",
        <<"organizations", organization, "workspaces",
          _splitparams(workspace)[1]>>,
        _splitparams(workspace)[2])

\* TerraformCloudAPI.patch_workspace: the URL it requests
patch_workspace_url(base_url, organization, workspace) ==
    urljoin(base_url, WorkspacePath(organization, workspace))

(***************************************************************************)
(* terraform.tf.  A file is [exists, content]; content is a sequence of    *)
(* items [t, v].                                                           *)
(***************************************************************************)
Item(t, v) == [t |-> t, v |-> v]

WsOpen == Item("workspaces {", "")

Close == Item("}", "")

NameIs(v) == Item("name", v)

OrgIs(v) == Item("organization", v)

PrefixIs(v) == Item("prefix", v)

NoFile == [exists |-> FALSE, content |-> <<>>]

FileOf(content) == [exists |-> TRUE, content |-> content]

WorkspacePattern == "workspaces {[^}]*name = \"(.*?)\""

OrganizationPattern == "organization = \"(.*?)\""

\* the positions j after i that hold a name assignment with no "}" in
\* between, i.e. where [^}]*name = " can end when the match starts at i
NameEnds(content, i) ==
    { j \in (i + 1)..Len(content) :
        /\ content[j].t = "name"
        /\ \A k \in (i + 1)..(j - 1) : content[k].t # "}" }

\* WorkspaceManager._extract_value: re.search takes the leftmost start; the
\* greedy [^}]* then takes the last name assignment it can reach, and the
\* lazy (.*?) stops at that assignment's closing quote
_extract_value(content, pattern) ==
    IF pattern = WorkspacePattern
    THEN LET starts == { i \in 1..Len(content) :
                           content[i] = WsOpen /\ NameEnds(content, i) # {} }
         IN IF starts = {} THEN None
            ELSE Some(content[Max(NameEnds(content, Min(starts)))].v)
    ELSE LET hits == { i \in 1..Len(content) : content[i].t = "organization" }
         IN IF hits = {} THEN None
            ELSE Some(content[Min(hits)].v)

\* WorkspaceManager.find_workspace_and_org: the pair it returns
find_workspace_and_org(f) ==
    IF f.exists
    THEN <<_extract_value(f.content, WorkspacePattern),
           _extract_value(f.content, OrganizationPattern)>>
    ELSE <<None, None>>

(***************************************************************************)
(* The file system.  A directory is the sequence of its segments below     *)
(* "/" (so "/" is <<>>); only the directories from "/" down to the current *)
(* one matter to the upward walk.                                          *)
(***************************************************************************)
DirNames == <<"repo", "sub", "dir", "leaf", "deep", "deeper">>

IsPrefix(p, q) == Len(p) <= Len(q) /\ SubSeq(q, 1, Len(p)) = p

\* (parent / '.git').exists()
git_exists(parent) == parent \in gitdirs

\* parent.iterdir(): the names of the entries of a directory on the walk
iterdir(parent) ==
    (IF git_exists(parent) THEN {".git"} ELSE {})
    \cup (IF IsPrefix(parent, cwd) /\ parent # cwd
          THEN {cwd[Len(parent) + 1]} ELSE {})
    \cup (IF parent = cwd /\ file.exists THEN {"terraform.tf"} ELSE {})

\* [path] + list(path.parents): the directory, then each parent up to "/"
parents(path) ==
    [i \in 1..(Len(path) + 1) |-> SubSeq(path, 1, Len(path) + 1 - i)]

\* Mutant of find_repo_root: keeps walking and returns the topmost marker
find_repo_root_topmost(current_path) ==
    LET walk == parents(current_path)
        hits == { i \in 1..Len(walk) :
                    \E child \in iterdir(walk[i]) : git_exists(walk[i]) }
    IN IF hits = {} THEN current_path ELSE walk[Max(hits)]

\* WorkspaceManager.find_repo_root
find_repo_root(current_path) ==
    LET walk == parents(current_path)
        hits == { i \in 1..Len(walk) :
                    \E child \in iterdir(walk[i]) : git_exists(walk[i]) }
    IN IF hits = {} THEN current_path ELSE walk[Min(hits)]

\* the length of the longest common prefix of two paths
RECURSIVE CommonLen(_, _)
CommonLen(p, q) ==
    IF p = <<>> \/ q = <<>> \/ Head(p) # Head(q) THEN 0
    ELSE 1 + CommonLen(Tail(p), Tail(q))

\* os.path.relpath(path, start) of two absolute normalised paths
relpath(path, start) ==
    LET c    == CommonLen(path, start)
        ups  == [i \in 1..(Len(start) - c) |-> ".."]
        rel  == ups \o SubSeq(path, c + 1, Len(path))
    IN IF rel = <<>> THEN <<".">> ELSE rel

\* WorkspaceManager.get_working_directory
get_working_directory == relpath(cwd, find_repo_root(cwd))

(***************************************************************************)
(* The command line.                                                       *)
(***************************************************************************)
NoArgs == [local |-> FALSE, remote |-> FALSE, change_branch |-> None,
           set_working_directory |-> FALSE, set_trigger_paths |-> FALSE,
           reset_workspace |-> FALSE]

\* lines 131-135 of main: --reset-workspace rewrites the namespace
apply_reset(a) ==
    IF a.reset_workspace
    THEN [a EXCEPT !.remote = TRUE, !.change_branch = Some("main"),
                   !.set_working_directory = TRUE,
                   !.set_trigger_paths = TRUE]
    ELSE a

\* the keys build_settings assigns
settings_keys(a) ==
    (IF a.local \/ a.remote THEN {"execution-mode"} ELSE {})
    \cup (IF Truthy(a.change_branch) THEN {"vcs-repo"} ELSE {})
    \cup (IF a.set_working_directory THEN {"working-directory"} ELSE {})
    \cup (IF a.set_trigger_paths THEN {"trigger-patterns"} ELSE {})

\* Mutant of trigger_patterns: the patterns are built from the absolute
\* current directory instead of the repository-relative path
trigger_patterns_absolute(relative_path) ==
    << cwd \o <<"**", "*">>, cwd \o <<"common", "**", "*">> >>

\* the trigger patterns of line 116, each an f-string over relative_path
trigger_patterns(relative_path) ==
    << relative_path \o <<"**", "*">>,
       relative_path \o <<"common", "**", "*">> >>

\* build_settings
build_settings(a) ==
    [ key \in settings_keys(a) |->
        CASE key = "execution-mode" ->
                 IF a.local THEN "local" ELSE "remote"
          [] key = "vcs-repo" -> [branch |-> a.change_branch[1]]
          [] key = "working-directory" -> get_working_directory
          [] key = "trigger-patterns" ->
                 trigger_patterns(relpath(cwd, find_repo_root(cwd))) ]

(***************************************************************************)
(* The response log.                                                       *)
(***************************************************************************)
\* the keys of success_messages, in the dict's order
success_keys ==
    <<"working-directory", "execution-mode", "trigger-patterns", "vcs-repo">>

success_line(key, s) ==
    [kind |-> "success", key |-> key,
     arg  |-> IF key = "vcs-repo" THEN s[key].branch ELSE s[key]]

RECURSIVE success_lines(_, _)
success_lines(keys, s) ==
    IF keys = <<>> THEN <<>>
    ELSE (IF Head(keys) \in DOMAIN s
          THEN <<success_line(Head(keys), s)>> ELSE <<>>)
         \o success_lines(Tail(keys), s)

\* Mutant of _log_response: every 2xx status counts as success
_log_response_2xx(response, s) ==
    IF response.status_code \in 200..299
    THEN success_lines(success_keys, s)
    ELSE <<[kind |-> "error", status_code |-> response.status_code,
            text |-> response.text]>>

\* WorkspaceManager._log_response: the lines it prints
_log_response(response, s) ==
    IF response.status_code = 200
    THEN success_lines(success_keys, s)
    ELSE <<[kind |-> "error", status_code |-> response.status_code,
            text |-> response.text]>>

(***************************************************************************)
(* The inputs of a run.                                                    *)
(***************************************************************************)
\* API_BASE_URL of config.json: absent (the default ''), a bare host, and
\* the API root without and with its trailing slash
ConfigUrls ==
    { EmptyUrl,
      Url("https", Host, <<"">>, None),
      Url("https", Host, <<"", "api", "v2">>, None),
      Url("https", Host, <<"", "api", "v2", "">>, None) }

BranchValues == {"", "main", "dev"}

Argvs ==
    [local : BOOLEAN, remote : BOOLEAN,
     change_branch : {None} \cup { Some(b) : b \in BranchValues },
     set_working_directory : BOOLEAN, set_trigger_paths : BOOLEAN,
     reset_workspace : BOOLEAN]

TerraformFiles ==
    { NoFile,
      FileOf(<<OrgIs("o"), WsOpen, NameIs("w"), Close>>),
      FileOf(<<WsOpen, PrefixIs("p"), Close, OrgIs("o")>>),
      FileOf(<<WsOpen, NameIs("w"), Close>>),
      FileOf(<<WsOpen, NameIs(""), Close, OrgIs("o")>>),
      FileOf(<<WsOpen, NameIs("w"), Close, OrgIs("")>>),
      FileOf(<<WsOpen, NameIs("a"), NameIs("b"), Close, OrgIs("o")>>),
      FileOf(<<WsOpen, NameIs("..;x"), Close, OrgIs("o")>>) }

Cwds == { SubSeq(DirNames, 1, d) : d \in 0..MaxDepth }

Ancestors(path) == { SubSeq(path, 1, d) : d \in 0..Len(path) }

Responses ==
    { [status_code |-> 200, text |-> "{\"data\":{}}"],
      [status_code |-> 201, text |-> ""],
      [status_code |-> 404, text |-> "{\"errors\":[\"not found\"]}"],
      [status_code |-> 422, text |-> "{\"errors\":[\"invalid\"]}"] }

NoSettings == [key \in {} |-> ""]

(***************************************************************************)
(* The run.                                                                *)
(***************************************************************************)
Init ==
    /\ pc = "import"
    /\ config \in ConfigUrls
    /\ API_BASE_URL = EmptyUrl
    /\ argv \in Argvs
    /\ args = NoArgs
    /\ file \in TerraformFiles
    /\ cwd \in Cwds
    /\ gitdirs \in SUBSET Ancestors(cwd)
    /\ workspace_name = None
    /\ organization_name = None
    /\ settings = NoSettings
    /\ patcher = <<>>
    /\ requests = <<>>
    /\ http_response = None
    /\ out = <<>>
    /\ events = <<>>

\* lines 16-33: the module reads config.json when it is loaded
LoadConfig ==
    /\ pc = "import"
    /\ API_BASE_URL' = config
    /\ events' = Append(events, "read config.json")
    /\ pc' = "parse"
    /\ UNCHANGED <<config, argv, args, file, cwd, gitdirs, workspace_name,
                   organization_name, settings, patcher, requests,
                   http_response,
                   out>>

\* lines 120-129: --local and --remote are mutually exclusive; argparse
\* reports the pair and exits
ParseArgsRejects ==
    /\ pc = "parse"
    /\ argv.local /\ argv.remote
    /\ out' = Append(out, [kind |-> "usage"])
    /\ pc' = "done"
    /\ UNCHANGED <<config, API_BASE_URL, argv, args, file, cwd, gitdirs,
                   workspace_name, organization_name, settings, patcher,
                   requests, http_response, events>>

\* lines 120-138
ParseArgs ==
    /\ pc = "parse"
    /\ ~(argv.local /\ argv.remote)
    /\ args' = apply_reset(argv)
    /\ pc' = "locate"
    /\ UNCHANGED <<config, API_BASE_URL, argv, file, cwd, gitdirs,
                   workspace_name, organization_name, settings, patcher,
                   requests, http_response, out, events>>

\* lines 140-143 and 151-152, with find_workspace_and_org
Locate ==
    /\ pc = "locate"
    /\ LET found == find_workspace_and_org(file)
           both  == Truthy(found[1]) /\ Truthy(found[2])
       IN /\ workspace_name' = found[1]
          /\ organization_name' = found[2]
          /\ out' = out
                \o (IF file.exists THEN <<>>
                    ELSE <<[kind |-> "file not found"]>>)
                \o (IF both
                    THEN <<[kind |-> "found", workspace |-> found[1][1],
                            organization |-> found[2][1]]>>
                    ELSE <<[kind |-> "failed to find"]>>)
          /\ pc' = IF both THEN "build" ELSE "done"
    /\ events' = Append(events, "read terraform.tf")
    /\ UNCHANGED <<config, API_BASE_URL, argv, args, file, cwd, gitdirs,
                   settings, patcher, requests, http_response>>

\* lines 144-145
BuildSettings ==
    /\ pc = "build"
    /\ settings' = build_settings(args)
    /\ events' = events
          \o (IF args.set_working_directory THEN <<"walk">> ELSE <<>>)
          \o (IF args.set_trigger_paths THEN <<"walk">> ELSE <<>>)
    /\ pc' = IF DOMAIN settings' # {} THEN "patch" ELSE "done"
    /\ UNCHANGED <<config, API_BASE_URL, argv, args, file, cwd, gitdirs,
                   workspace_name, organization_name, patcher, requests,
                   http_response, out>>

\* the request update_workspace_settings hands to requests.patch
patch_request ==
    [method |-> "PATCH",
     url    |-> patch_workspace_url(API_BASE_URL, organization_name[1],
                                    workspace_name[1]),
     json   |-> [data |-> [attributes |-> settings, type |-> "workspaces"]]]

\* Mutant of patcher_call: the two names are passed in the other order
patcher_call_swapped ==
    [organization_name |-> workspace_name[1],
     workspace_name |-> organization_name[1], kwargs |-> settings]

\* the call main makes on line 147
patcher_call ==
    [organization_name |-> organization_name[1],
     workspace_name |-> workspace_name[1], kwargs |-> settings]

\* lines 146-147: the request is answered; _log_response prints
PatchResponds ==
    /\ pc = "patch"
    /\ patch_request.url.scheme # ""
    /\ \E r \in Responses :
          /\ http_response' = Some(r)
          /\ out' = out \o _log_response(r, settings)
    /\ patcher' = Append(patcher, patcher_call)
    /\ requests' = Append(requests, patch_request)
    /\ events' = Append(events, "http")
    /\ pc' = "done"
    /\ UNCHANGED <<config, API_BASE_URL, argv, args, file, cwd, gitdirs,
                   workspace_name, organization_name, settings>>

\* Mutant of PatchRaises: the exception is caught and the request is left
\* to be sent again
PatchRaisesRetries ==
    /\ pc = "patch"
    /\ out' = Append(out, [kind |-> "exception"])
    /\ patcher' = Append(patcher, patcher_call)
    /\ requests' = Append(requests, patch_request)
    /\ events' = Append(events, "http")
    /\ pc' = "patch"
    /\ UNCHANGED <<config, API_BASE_URL, argv, args, file, cwd, gitdirs,
                   workspace_name, organization_name, settings,
                   http_response>>

\* lines 146-149: requests.patch raises (no scheme in the URL, or the
\* connection fails); main catches the exception and prints it
PatchRaises ==
    /\ pc = "patch"
    /\ out' = Append(out, [kind |-> "exception"])
    /\ patcher' = Append(patcher, patcher_call)
    /\ requests' = Append(requests, patch_request)
    /\ events' = Append(events, "http")
    /\ pc' = "done"
    /\ UNCHANGED <<config, API_BASE_URL, argv, args, file, cwd, gitdirs,
                   workspace_name, organization_name, settings,
                   http_response>>

Next ==
    \/ LoadConfig
    \/ ParseArgsRejects
    \/ ParseArgs
    \/ Locate
    \/ BuildSettings
    \/ PatchResponds
    \/ PatchRaises

Spec == Init /\ [][Next]_vars

(***************************************************************************)
(* Vocabulary of the properties.                                           *)
(***************************************************************************)
AllKeys ==
    {"execution-mode", "vcs-repo", "working-directory", "trigger-patterns"}

\* an optional string that is present and not empty
NonEmpty(x) == x # None /\ x # Some("")

\* the Locator has run in this run
LocatorRan == \E i \in 1..Len(events) : events[i] = "read terraform.tf"

\* main() holds a workspace name and an organization name
BothFound == NonEmpty(workspace_name) /\ NonEmpty(organization_name)

LinesOfKind(kind) == { i \in 1..Len(out) : out[i].kind = kind }

SuccessLinesFor(key) ==
    { i \in 1..Len(out) : out[i].kind = "success" /\ out[i].key = key }

\* the nearest directory, from the current one upward, that holds .git;
\* the current directory when there is none
NearestMarked ==
    LET marked == { d \in Ancestors(cwd) : d \in gitdirs }
    IN IF marked = {} THEN cwd
       ELSE CHOOSE d \in marked : \A e \in marked : Len(e) <= Len(d)

\* the current directory relative to NearestMarked
RelativeToNearest ==
    IF NearestMarked = cwd THEN <<".">>
    ELSE SubSeq(cwd, Len(NearestMarked) + 1, Len(cwd))

\* the first name assignment that follows a `workspaces {` with no `}` in
\* between
FirstNameInBlock(content) ==
    LET inside == { j \in 1..Len(content) :
                      /\ content[j].t = "name"
                      /\ \E i \in 1..(j - 1) :
                            /\ content[i] = WsOpen
                            /\ \A k \in (i + 1)..(j - 1) :
                                  content[k].t # "}" }
    IN IF inside = {} THEN None ELSE Some(content[Min(inside)].v)

FirstOrganization(content) ==
    LET orgs == { j \in 1..Len(content) : content[j].t = "organization" }
    IN IF orgs = {} THEN None ELSE Some(content[Min(orgs)].v)

\* {base_url}/organizations/{org}/workspaces/{workspace}, a trailing slash
\* of the base not doubled
ExpectedUrl(base, organization, workspace) ==
    LET kept == IF Len(base.parts) > 1 /\ Last(base.parts) = ""
                THEN Front(base.parts) ELSE base.parts
        suffix == WorkspacePath(organization, workspace)
    IN Url(base.scheme, base.netloc, kept \o suffix.parts, suffix.params)

(***************************************************************************)
(* Properties.                                                             *)
(***************************************************************************)

\* C1: a PATCH request is sent only if the Locator returned a non-empty
\* workspace name and a non-empty organization name and build_settings
\* produced at least one setting; when terraform.tf is missing or either
\* pattern does not match, or matches an empty value, the run makes no HTTP
\* call.
C1_PatchOnlyWhenResolved ==
    LET found == find_workspace_and_org(file)
        resolved == file.exists /\ NonEmpty(found[1]) /\ NonEmpty(found[2])
    IN /\ \A i \in 1..Len(requests) :
             /\ resolved
             /\ NonEmpty(workspace_name) /\ NonEmpty(organization_name)
             /\ DOMAIN requests[i].json.data.attributes # {}
       /\ ~resolved => (requests = <<>> /\ LinesOfKind("success") = {}
                        /\ \A i \in 1..Len(events) : events[i] # "http")

C1_Witness ==
    /\ pc = "done"
    /\ Len(requests) = 1
    /\ workspace_name = Some("w")
    /\ organization_name = Some("o")
    /\ DOMAIN requests[1].json.data.attributes = {"execution-mode"}

\* C2 (as claimed): whenever --reset-workspace is given, whatever other
\* flags accompany it, the settings built are execution-mode "remote",
\* vcs-repo.branch "main", working-directory the repository-relative path
\* and trigger-patterns built from that path.
C2_ResetIsComposite ==
    (argv.reset_workspace /\ pc = "patch") =>
        /\ DOMAIN settings = AllKeys
        /\ settings["execution-mode"] = "remote"
        /\ settings["vcs-repo"] = [branch |-> "main"]
        /\ settings["working-directory"] = RelativeToNearest
        /\ settings["trigger-patterns"] =
              << RelativeToNearest \o <<"**", "*">>,
                 RelativeToNearest \o <<"common", "**", "*">> >>

\* C3 (as claimed): for every configured base URL, with or without a
\* trailing slash and with or without a path, the PATCH goes to
\* {base_url}/organizations/{org}/workspaces/{workspace}: every path segment
\* of the base URL is kept and the three-part suffix is appended.
C3_UrlKeepsBasePath ==
    \A i \in 1..Len(requests) :
        API_BASE_URL # EmptyUrl =>
            requests[i].url = ExpectedUrl(API_BASE_URL, organization_name[1],
                                          workspace_name[1])

\* C4 (as claimed): without --reset-workspace, the attributes of the patch
\* body hold a key if and only if its flag was supplied, and --change-branch
\* b puts vcs-repo = {branch: b} for every supplied value b.
C4_KeysIffFlagsSupplied ==
    \A i \in 1..Len(requests) :
        ~argv.reset_workspace =>
            LET attributes == requests[i].json.data.attributes
            IN /\ ("execution-mode" \in DOMAIN attributes)
                     <=> (argv.local \/ argv.remote)
               /\ ("vcs-repo" \in DOMAIN attributes)
                     <=> (argv.change_branch # None)
               /\ ("working-directory" \in DOMAIN attributes)
                     <=> argv.set_working_directory
               /\ ("trigger-patterns" \in DOMAIN attributes)
                     <=> argv.set_trigger_paths
               /\ "vcs-repo" \in DOMAIN attributes =>
                     attributes["vcs-repo"] =
                        [branch |-> argv.change_branch[1]]

\* C5: after the PATCH returned, a status of 200 gives exactly one success
\* line for each key of the sent settings, none for any other key and no
\* error line; any other status gives exactly one error line with the status
\* code and the body, and no success line.
C5_LogMatchesStatus ==
    http_response # None =>
        LET r == http_response[1]
        IN IF r.status_code = 200
           THEN /\ \A key \in DOMAIN settings :
                      Cardinality(SuccessLinesFor(key)) = 1
                /\ \A key \in AllKeys \ DOMAIN settings :
                      SuccessLinesFor(key) = {}
                /\ Cardinality(LinesOfKind("success")) =
                      Cardinality(DOMAIN settings)
                /\ LinesOfKind("error") = {}
           ELSE /\ Cardinality(LinesOfKind("error")) = 1
                /\ \A i \in LinesOfKind("error") :
                      /\ out[i].status_code = r.status_code
                      /\ out[i].text = r.text
                /\ LinesOfKind("success") = {}

C5_Witness ==
    /\ http_response # None
    /\ http_response[1].status_code = 200
    /\ DOMAIN settings = {"vcs-repo", "working-directory"}
    /\ Cardinality(LinesOfKind("success")) = 2

\* the part of C6 that holds as claimed: in main() the Locator runs before
\* any walk of the file system and before any HTTP call, the Patcher is
\* never invoked twice, and a run whose Locator did not find both values
\* prints the error and never invokes the Patcher
C6_LocatorFirst ==
    /\ \A i \in 1..Len(events) :
          events[i] \in {"walk", "http"} =>
              \E j \in 1..(i - 1) : events[j] = "read terraform.tf"
    /\ Len(patcher) <= 1
    /\ (pc = "done" /\ LocatorRan /\ ~BothFound) =>
          /\ patcher = <<>>
          /\ out[Len(out)].kind = "failed to find"

\* C6 (as claimed): when the Locator found both values the Patcher is
\* invoked exactly once in the run, with the discovered organization and
\* workspace and the requested changes.
C6_PatcherOnceWheneverFound ==
    /\ C6_LocatorFirst
    /\ (pc = "done" /\ LocatorRan /\ BothFound) =>
          /\ Len(patcher) = 1
          /\ patcher[1] = [organization_name |-> organization_name[1],
                           workspace_name |-> workspace_name[1],
                           kwargs |-> settings]

\* C6 (amended): when the Locator found both values the Patcher is invoked
\* exactly once if build_settings returned at least one setting, with the
\* discovered organization and workspace and those settings, and is not
\* invoked at all if no setting was requested.
C6_PatcherOnceWhenSettingsRequested ==
    /\ C6_LocatorFirst
    /\ (pc = "done" /\ LocatorRan /\ BothFound) =>
          IF DOMAIN settings # {}
          THEN /\ Len(patcher) = 1
               /\ patcher[1] = [organization_name |-> organization_name[1],
                                workspace_name |-> workspace_name[1],
                                kwargs |-> settings]
          ELSE patcher = <<>>

C6_Witness ==
    /\ pc = "done"
    /\ LocatorRan
    /\ BothFound
    /\ DOMAIN settings = {}
    /\ patcher = <<>>
    /\ out[Len(out)].kind = "found"

\* C7 (as claimed): the Locator returns the value of the first name
\* assignment inside a workspaces block and the value of the first
\* organization assignment.
C7_FirstNameInsideBlock ==
    (LocatorRan /\ file.exists) =>
        /\ workspace_name = FirstNameInBlock(file.content)
        /\ organization_name = FirstOrganization(file.content)

\* C8: when requests.patch raises, the request was attempted exactly once,
\* an error is reported, no success line is printed and the run is over: no
\* step, and so no further HTTP call, follows.
C8_TransportErrorIsFatal ==
    (requests # <<>> /\ http_response = None) =>
        /\ Len(requests) = 1
        /\ Len(patcher) = 1
        /\ Cardinality(LinesOfKind("exception")) = 1
        /\ out[Len(out)].kind = "exception"
        /\ LinesOfKind("success") = {}
        /\ pc = "done"
        /\ ~ENABLED Next

C8_Witness ==
    /\ pc = "done"
    /\ Len(requests) = 1
    /\ requests[1].url.netloc = Host
    /\ http_response = None
    /\ LinesOfKind("exception") # {}

\* C9: find_repo_root returns the nearest directory on the upward walk that
\* holds a .git marker, the starting directory when none does, and
\* get_working_directory returns the starting directory relative to it
\* (sub/dir from /repo/sub/dir with /repo/.git); the working-directory
\* setting of a run is that path.
C9_NearestMarkerOrStart ==
    /\ find_repo_root(cwd) = NearestMarked
    /\ get_working_directory = RelativeToNearest
    /\ (pc = "patch" /\ args.set_working_directory) =>
          settings["working-directory"] = RelativeToNearest

C9_Witness ==
    /\ pc = "patch"
    /\ args.set_working_directory
    /\ cwd = <<"repo", "sub", "dir">>
    /\ gitdirs = {<<"repo">>}
    /\ settings["working-directory"] = <<"sub", "dir">>

\* C10: a run that requests working-directory and trigger-patterns derives
\* both from the same repository-relative path p: working-directory = p and
\* trigger-patterns = [p/**/*, p/common/**/*], two patterns in that order,
\* with p = "." at the repository root and when no marker is found.
C10_SamePathForBoth ==
    (pc = "patch" /\ args.set_working_directory /\ args.set_trigger_paths) =>
        /\ {"working-directory", "trigger-patterns"} \subseteq DOMAIN settings
        /\ LET p == settings["working-directory"]
               patterns == settings["trigger-patterns"]
           IN /\ Len(patterns) = 2
              /\ patterns[1] = p \o <<"**", "*">>
              /\ patterns[2] = p \o <<"common", "**", "*">>
              /\ (cwd \in gitdirs \/ gitdirs = {}) => p = <<".">>

C10_Witness ==
    /\ pc = "patch"
    /\ argv.reset_workspace
    /\ gitdirs = {}
    /\ cwd = <<"repo", "sub">>
    /\ settings["working-directory"] = <<".">>
    /\ settings["trigger-patterns"] =
          << <<".", "**", "*">>, <<".", "common", "**", "*">> >>

====
